---- MODULE Spec2Model ----
(***************************************************************************)
(* Cross-process mutual exclusion over shared memory.                      *)
(*                                                                         *)
(* Two state machines share this module:                                   *)
(*                                                                         *)
(*   Spec       the parent/child protocol over a process-shared pthread    *)
(*              mutex (src/src/main.rs and src/child_process/src/main.rs); *)
(*   SpecFutex  the futex lock of SharedData (src/src/shared.rs) driven by *)
(*              processes that call lock, lock_timeout, try_lock, unlock.  *)
(***************************************************************************)
EXTENDS Integers, FiniteSets, Sequences, TLC

VARIABLES
    \* ---- parent/child protocol ----
    mutex,      \* lock word of the pthread mutex at MUTEX_OFFSET: 0 free, 1 locked
    number,     \* the i64 at NUMBER_OFFSET
    shm,        \* the named region: "absent", "linked", "unlinked"
    ppc,        \* parent's position in main
    cpc,        \* child's position in main
    attempts,   \* child's local `attempts`
    pcur,       \* parent's local `current_number` (NoVal before the read)
    ccur,       \* child's local `current_number` (NoVal before the read)
    perr,       \* the Err the parent's main returned ("" while none)
    cerr,       \* the Err the child's main returned ("" while none)
    log,        \* history: <<who, event, payload>> of writes, reads, acquires, releases
    \* ---- futex lock of SharedData ----
    futex,      \* SharedData.futex.value
    sdnum,      \* SharedData.number
    pc,         \* per process: position inside the current call
    op,         \* per process: the call in progress ("none" when idle)
    res,        \* per process: the call's result ("none" until it returns)
    holds,      \* per process: between a successful acquire and its unlock
    tmo,        \* per process: `timeout` argument of lock_timeout
    elapsed,    \* per process: start.elapsed(), saturated at tmo
    rem,        \* per process: `remaining` / time left of the kernel wait
    blocked,    \* per process: time the current call has spent in kernel waits
    hist        \* per process: history record of the current call

protoVars == <<mutex, number, shm, ppc, cpc, attempts, pcur, ccur, perr, cerr,
               log>>
futexVars ==
    <<futex, sdnum, pc, op, res, holds, tmo, elapsed, rem, blocked, hist>>
vars == <<protoVars, futexVars>>

NoVal == -1

(***************************************************************************)
(* Program constants.                                                      *)
(***************************************************************************)
EBUSY == 16
timeout_seconds == 10
sleep_millis == 100

\* Faulty variant: a polling budget one attempt short.
max_attempts_short == timeout_seconds * 10 - 1

max_attempts == timeout_seconds * 10

InitialNumber == 100

\* Error codes a pthread call can return besides 0 and EBUSY (EPERM, EINVAL).
ErrCodes == {1, 22}

(***************************************************************************)
(* libc calls on the mutex word: the set of <<return code, new word>>.     *)
(***************************************************************************)
\* Faulty variant: a trylock that takes the word whatever it holds.
pthread_mutex_trylock_blind(m) ==
    {<<0, 1>>} \cup {<<e, m>> : e \in ErrCodes}

\* trylock: 0 and the word taken when free, EBUSY when locked; an error
\* return leaves the word alone.
pthread_mutex_trylock(m) ==
    (IF m = 0 THEN {<<0, 1>>} ELSE {<<EBUSY, m>>})
        \cup {<<e, m>> : e \in ErrCodes}

\* lock: returns 0 only once the word was free (the caller blocks until
\* then); an error return leaves the word alone.
pthread_mutex_lock(m) ==
    (IF m = 0 THEN {<<0, 1>>} ELSE {})
        \cup {<<e, m>> : e \in ErrCodes}

\* unlock: 0 and the word freed; an error return leaves the word alone.
pthread_mutex_unlock(m) ==
    {<<0, 0>>} \cup {<<e, m>> : e \in ErrCodes}

\* Faulty variant: the child's arithmetic without its parentheses.
ChildOp_NoParens(n) == n + 25 * 2

\* The arithmetic of the two read-modify-writes.
ChildOp(n) == (n + 25) * 2
ParentOp(n) == n * 3 + 50

(***************************************************************************)
(* The futex lock, src/src/shared.rs. Each process is idle or inside one   *)
(* call; a call that has returned sits at "ret" with its result until the  *)
(* caller takes it (Return).                                               *)
(***************************************************************************)
NProcs == 2
MaxTimeout == 1
Procs == 1 .. NProcs
Timeouts == 0 .. MaxTimeout
Payloads == {InitialNumber, ChildOp(InitialNumber)}

\* History of a call, kept for the properties only:
\*   quiet   the word was 0 when the call started and no other process has
\*           taken a step since;
\*   waited  the call has invoked the kernel wait;
\*   zero    (lock_timeout) the word was 0 at some moment since the call
\*           started;
\*   rel     another process stored 0 (unlock) after this call's failed
\*           compare-exchange, with time left, and no other process has
\*           taken the lock since.
NoHist == [quiet |-> FALSE, waited |-> FALSE, zero |-> FALSE, rel |-> FALSE]
NewHist(timed) ==
    [quiet |-> futex = 0, waited |-> FALSE, zero |-> timed /\ futex = 0,
     rel |-> FALSE]

Timed(r) == op[r] = "lock_timeout" /\ pc[r] # "ret"
AfterFailedCas(r) ==
    /\ op[r] = "lock_timeout"
    /\ pc[r] \in {"remaining", "wait", "sleeping"}
    /\ elapsed[r] < tmo[r]

\* The history after a step of process p that leaves the word at f2 and
\* p's own record at own; took: p took the lock, freed: p stored 0.
HistAfter(p, own, f2, took, freed) ==
    [r \in Procs |->
        IF r = p THEN own
        ELSE [quiet  |-> FALSE,
              waited |-> hist[r].waited,
              zero   |-> hist[r].zero \/ (f2 = 0 /\ Timed(r)),
              rel    |-> (hist[r].rel /\ ~took)
                            \/ (freed /\ AfterFailedCas(r))]]

\* Faulty variants: an exchange that does not compare, and one called with
\* its two arguments the wrong way round.
compare_exchange_blind(cur, expected, new) == <<TRUE, new>>
compare_exchange_swapped(cur, expected, new) ==
    IF cur = new THEN <<TRUE, expected>> ELSE <<FALSE, cur>>

\* compare_exchange(expected, new) on a word holding cur:
\* <<succeeded, the word afterwards>>.
compare_exchange(cur, expected, new) ==
    IF cur = expected THEN <<TRUE, new>> ELSE <<FALSE, cur>>

\* Faulty variant: a wait that sleeps on the unlocked value.
futex_wait_stale(cur, expected) ==
    IF cur # expected THEN "sleep" ELSE "WrongValue"

\* FUTEX_WAIT on a word holding cur: the caller sleeps only if the word
\* still holds the expected value, and gets WrongValue (EAGAIN) otherwise.
futex_wait(cur, expected) ==
    IF cur = expected THEN "sleep" ELSE "WrongValue"

\* The top of the loop a woken waiter goes back to.
LoopTop(p) == IF op[p] = "lock_timeout" THEN "check" ELSE "cas"

Sleepers == {q \in Procs : pc[q] = "sleeping"}

\* A call of lock or lock_timeout returns r: its locals (start, remaining)
\* and its argument are gone.
Returns(p, r) ==
    /\ pc' = [pc EXCEPT ![p] = "ret"]
    /\ res' = [res EXCEPT ![p] = r]
    /\ tmo' = [tmo EXCEPT ![p] = 0]
    /\ elapsed' = [elapsed EXCEPT ![p] = 0]
    /\ rem' = [rem EXCEPT ![p] = 0]
    /\ blocked' = [blocked EXCEPT ![p] = 0]

\* lock(): enter the loop. The lock is not reentrant: a process that holds
\* it calls neither lock nor lock_timeout.
CallLock(p) ==
    /\ pc[p] = "idle"
    /\ ~holds[p]
    /\ pc' = [pc EXCEPT ![p] = "cas"]
    /\ op' = [op EXCEPT ![p] = "lock"]
    /\ hist' = HistAfter(p, NewHist(FALSE), futex, FALSE, FALSE)
    /\ UNCHANGED <<futex, sdnum, res, holds, tmo, elapsed, rem, blocked>>
    /\ UNCHANGED protoVars

\* lock_timeout(t): `start = Instant::now()`.
CallLockTimeout(p, t) ==
    /\ pc[p] = "idle"
    /\ ~holds[p]
    /\ pc' = [pc EXCEPT ![p] = "check"]
    /\ op' = [op EXCEPT ![p] = "lock_timeout"]
    /\ tmo' = [tmo EXCEPT ![p] = t]
    /\ elapsed' = [elapsed EXCEPT ![p] = 0]
    /\ hist' = HistAfter(p, NewHist(TRUE), futex, FALSE, FALSE)
    /\ UNCHANGED <<futex, sdnum, res, holds, rem, blocked>>
    /\ UNCHANGED protoVars

\* `if start.elapsed() >= timeout { return Err(TimedOut) }`
Check(p) ==
    /\ pc[p] = "check"
    /\ IF elapsed[p] >= tmo[p]
          THEN Returns(p, "TimedOut")
          ELSE /\ pc' = [pc EXCEPT ![p] = "cas"]
               /\ UNCHANGED <<res, tmo, elapsed, rem, blocked>>
    /\ hist' = HistAfter(p, hist[p], futex, FALSE, FALSE)
    /\ UNCHANGED <<futex, sdnum, op, holds>>
    /\ UNCHANGED protoVars

\* The compare_exchange(0, 1) of lock and lock_timeout and its two arms.
Cas(p) ==
    /\ pc[p] = "cas"
    /\ LET r == compare_exchange(futex, 0, 1) IN
         /\ futex' = r[2]
         /\ IF r[1]
               THEN /\ Returns(p, "Ok")
                    /\ holds' = [holds EXCEPT ![p] = TRUE]
               ELSE /\ pc' = [pc EXCEPT ![p] =
                                 IF op[p] = "lock" THEN "wait" ELSE "remaining"]
                    /\ holds' = holds
                    /\ UNCHANGED <<res, tmo, elapsed, rem, blocked>>
         /\ hist' = HistAfter(p, hist[p], r[2], r[1], FALSE)
    /\ UNCHANGED <<sdnum, op>>
    /\ UNCHANGED protoVars

\* `remaining = timeout.saturating_sub(start.elapsed())`, TimedOut if zero.
Remaining(p) ==
    /\ pc[p] = "remaining"
    /\ IF tmo[p] - elapsed[p] = 0
          THEN Returns(p, "TimedOut")
          ELSE /\ pc' = [pc EXCEPT ![p] = "wait"]
               /\ rem' = [rem EXCEPT ![p] = tmo[p] - elapsed[p]]
               /\ UNCHANGED <<res, tmo, elapsed, blocked>>
    /\ hist' = HistAfter(p, hist[p], futex, FALSE, FALSE)
    /\ UNCHANGED <<futex, sdnum, op, holds>>
    /\ UNCHANGED protoVars

\* `self.futex.wait(1)?` / `self.futex.wait_for(1, remaining)?` entering
\* the kernel: the caller sleeps, or the error comes back through `?`.
Wait(p) ==
    /\ pc[p] = "wait"
    /\ IF futex_wait(futex, 1) = "sleep"
          THEN /\ pc' = [pc EXCEPT ![p] = "sleeping"]
               /\ UNCHANGED <<res, tmo, elapsed, rem, blocked>>
          ELSE Returns(p, futex_wait(futex, 1))
    /\ hist' = HistAfter(p, [hist[p] EXCEPT !.waited = TRUE], futex,
                          FALSE, FALSE)
    /\ UNCHANGED <<futex, sdnum, op, holds>>
    /\ UNCHANGED protoVars

\* Faulty variant: a kernel wait issued without its timeout never expires.
TimerExpires_Untimed(p) ==
    /\ pc[p] = "sleeping"
    /\ op[p] = "lock_timeout"
    /\ FALSE
    /\ UNCHANGED vars

\* The kernel wait of wait_for runs out of time: Err(TimedOut) through `?`.
TimerExpires(p) ==
    /\ pc[p] = "sleeping"
    /\ op[p] = "lock_timeout"
    /\ rem[p] = 0
    /\ Returns(p, "TimedOut")
    /\ hist' = HistAfter(p, hist[p], futex, FALSE, FALSE)
    /\ UNCHANGED <<futex, sdnum, op, holds>>
    /\ UNCHANGED protoVars

\* A signal ends the kernel wait: Err(Interrupted) through `?`.
Interrupt(p) ==
    /\ pc[p] = "sleeping"
    /\ Returns(p, "Interrupted")
    /\ hist' = HistAfter(p, hist[p], futex, FALSE, FALSE)
    /\ UNCHANGED <<futex, sdnum, op, holds>>
    /\ UNCHANGED protoVars

\* The kernel wait returns without a wake: Ok, and the loop goes round.
SpuriousWake(p) ==
    /\ pc[p] = "sleeping"
    /\ pc' = [pc EXCEPT ![p] = LoopTop(p)]
    /\ hist' = HistAfter(p, hist[p], futex, FALSE, FALSE)
    /\ UNCHANGED <<futex, sdnum, op, res, holds, tmo, elapsed, rem, blocked>>
    /\ UNCHANGED protoVars

\* try_lock(): one compare_exchange(0, 1), `.is_ok()`.
TryLock(p) ==
    /\ pc[p] = "idle"
    /\ LET r == compare_exchange(futex, 0, 1) IN
         /\ futex' = r[2]
         /\ res' = [res EXCEPT ![p] = IF r[1] THEN "true" ELSE "false"]
         /\ holds' = [holds EXCEPT ![p] = holds[p] \/ r[1]]
         /\ hist' = HistAfter(p, NoHist, r[2], r[1], FALSE)
    /\ pc' = [pc EXCEPT ![p] = "ret"]
    /\ op' = [op EXCEPT ![p] = "try_lock"]
    /\ UNCHANGED <<sdnum, tmo, elapsed, rem, blocked>>
    /\ UNCHANGED protoVars

\* Faulty variant: an unlock that issues its wake together with the store,
\* before the word is seen to be 0.
UnlockStore_WakeFirst(p) ==
    /\ pc[p] = "idle"
    /\ holds[p]
    /\ futex' = 0
    /\ holds' = [holds EXCEPT ![p] = FALSE]
    /\ IF Sleepers = {}
          THEN pc' = [pc EXCEPT ![p] = "wake"]
          ELSE \E q \in Sleepers :
                  pc' = [pc EXCEPT ![p] = "wake", ![q] = LoopTop(q)]
    /\ op' = [op EXCEPT ![p] = "unlock"]
    /\ hist' = HistAfter(p, NoHist, 0, FALSE, TRUE)
    /\ UNCHANGED <<sdnum, res, tmo, elapsed, rem, blocked>>
    /\ UNCHANGED protoVars

\* Faulty variant: a wake with no count limit wakes every sleeper.
UnlockWake_All(p) ==
    /\ pc[p] = "wake"
    /\ pc' = [q \in Procs |->
                 IF q = p THEN "ret"
                 ELSE IF q \in Sleepers THEN LoopTop(q) ELSE pc[q]]
    /\ res' = [res EXCEPT ![p] = "unit"]
    /\ hist' = HistAfter(p, hist[p], futex, FALSE, FALSE)
    /\ UNCHANGED <<futex, sdnum, op, holds, tmo, elapsed, rem, blocked>>
    /\ UNCHANGED protoVars

\* unlock(), first line: `self.futex.value.store(0, Release)`. Only the
\* holder calls unlock.
UnlockStore(p) ==
    /\ pc[p] = "idle"
    /\ holds[p]
    /\ futex' = 0
    /\ holds' = [holds EXCEPT ![p] = FALSE]
    /\ pc' = [pc EXCEPT ![p] = "wake"]
    /\ op' = [op EXCEPT ![p] = "unlock"]
    /\ hist' = HistAfter(p, NoHist, 0, FALSE, TRUE)
    /\ UNCHANGED <<sdnum, res, tmo, elapsed, rem, blocked>>
    /\ UNCHANGED protoVars

\* unlock(), second line: `self.futex.wake(1)` wakes one sleeper, if any.
UnlockWake(p) ==
    /\ pc[p] = "wake"
    /\ IF Sleepers = {}
          THEN pc' = [pc EXCEPT ![p] = "ret"]
          ELSE \E q \in Sleepers :
                  pc' = [pc EXCEPT ![p] = "ret", ![q] = LoopTop(q)]
    /\ res' = [res EXCEPT ![p] = "unit"]
    /\ hist' = HistAfter(p, hist[p], futex, FALSE, FALSE)
    /\ UNCHANGED <<futex, sdnum, op, holds, tmo, elapsed, rem, blocked>>
    /\ UNCHANGED protoVars

\* The caller takes the result of the call that returned.
Return(p) ==
    /\ pc[p] = "ret"
    /\ pc' = [pc EXCEPT ![p] = "idle"]
    /\ op' = [op EXCEPT ![p] = "none"]
    /\ res' = [res EXCEPT ![p] = "none"]
    /\ hist' = HistAfter(p, NoHist, futex, FALSE, FALSE)
    /\ UNCHANGED <<futex, sdnum, holds, tmo, elapsed, rem, blocked>>
    /\ UNCHANGED protoVars

\* set_number(v) by the holder, between its acquire and its unlock.
SetNumber(p, v) ==
    /\ pc[p] = "idle"
    /\ holds[p]
    /\ v # sdnum
    /\ sdnum' = v
    /\ hist' = HistAfter(p, hist[p], futex, FALSE, FALSE)
    /\ UNCHANGED <<futex, pc, op, res, holds, tmo, elapsed, rem, blocked>>
    /\ UNCHANGED protoVars

\* One unit of wall-clock time passes: start.elapsed() grows for every call
\* of lock_timeout (it is only ever compared with timeout, so it is kept
\* saturated there), and every kernel wait has one unit less left and has
\* blocked its caller for one unit more.
Tick ==
    /\ \E r \in Procs :
          \/ Timed(r) /\ elapsed[r] < tmo[r]
          \/ Timed(r) /\ pc[r] = "sleeping" /\ rem[r] > 0
    /\ elapsed' = [r \in Procs |->
                      IF Timed(r) /\ elapsed[r] < tmo[r]
                        THEN elapsed[r] + 1 ELSE elapsed[r]]
    /\ rem' = [r \in Procs |->
                  IF Timed(r) /\ pc[r] = "sleeping" /\ rem[r] > 0
                    THEN rem[r] - 1 ELSE rem[r]]
    /\ blocked' = [r \in Procs |->
                      IF Timed(r) /\ pc[r] = "sleeping" /\ rem[r] > 0
                        THEN blocked[r] + 1 ELSE blocked[r]]
    /\ UNCHANGED <<futex, sdnum, pc, op, res, holds, tmo, hist>>
    /\ UNCHANGED protoVars

ProtoIdle ==
    /\ mutex = 0
    /\ number = 0
    /\ shm = "absent"
    /\ ppc = "p_create"
    /\ cpc = "c_none"
    /\ attempts = 0
    /\ pcur = NoVal
    /\ ccur = NoVal
    /\ perr = ""
    /\ cerr = ""
    /\ log = <<>>

FutexIdle ==
    /\ futex = 0
    /\ sdnum = InitialNumber
    /\ pc = [p \in Procs |-> "idle"]
    /\ op = [p \in Procs |-> "none"]
    /\ res = [p \in Procs |-> "none"]
    /\ holds = [p \in Procs |-> FALSE]
    /\ tmo = [p \in Procs |-> 0]
    /\ elapsed = [p \in Procs |-> 0]
    /\ rem = [p \in Procs |-> 0]
    /\ blocked = [p \in Procs |-> 0]
    /\ hist = [p \in Procs |-> NoHist]

InitFutex == ProtoIdle /\ FutexIdle

NextFutex ==
    \/ \E p \in Procs : CallLock(p)
    \/ \E p \in Procs : \E t \in Timeouts : CallLockTimeout(p, t)
    \/ \E p \in Procs : Check(p)
    \/ \E p \in Procs : Cas(p)
    \/ \E p \in Procs : Remaining(p)
    \/ \E p \in Procs : Wait(p)
    \/ \E p \in Procs : TimerExpires(p)
    \/ \E p \in Procs : Interrupt(p)
    \/ \E p \in Procs : SpuriousWake(p)
    \/ \E p \in Procs : TryLock(p)
    \/ \E p \in Procs : UnlockStore(p)
    \/ \E p \in Procs : UnlockWake(p)
    \/ \E p \in Procs : Return(p)
    \/ \E p \in Procs : \E v \in Payloads : SetNumber(p, v)
    \/ Tick

SpecFutex == InitFutex /\ [][NextFutex]_vars

\* Scheduling: a process inside a call keeps being run (every statement of
\* lock_timeout's loop that can execute eventually does), the clock keeps
\* advancing, and a kernel wait whose time is up ends. Nothing is assumed of
\* what the other processes call, of wakes, or of signals.
\* The statement of lock_timeout's loop process p is at (at most one of
\* these is enabled at a time).
OwnStep(p) ==
    Check(p) \/ Cas(p) \/ Remaining(p) \/ Wait(p) \/ TimerExpires(p)

FairLockTimeout(p) == WF_vars(OwnStep(p))

SpecFutexFair ==
    SpecFutex /\ WF_vars(Tick) /\ \A p \in Procs : FairLockTimeout(p)

(***************************************************************************)
(* The parent, src/src/main.rs.                                            *)
(***************************************************************************)
Logged(who, what, val) == log' = Append(log, <<who, what, val>>)

\* shm_unlink of a stale name, shm_open(O_CREAT), ftruncate, mmap. A failed
\* shm_open leaves no region; a failed ftruncate or mmap returns with the
\* region created and still linked.
ParentCreate ==
    /\ ppc = "p_create"
    /\ \/ ppc' = "p_mutex_init" /\ shm' = "linked" /\ perr' = perr
       \/ /\ ppc' = "p_failed" /\ shm' = "absent"
          /\ perr' = "Failed to create shared memory"
       \/ /\ ppc' = "p_failed" /\ shm' = "linked"
          /\ perr' \in {"Failed to set shared memory size",
                        "Failed to map shared memory"}
    /\ UNCHANGED futexVars
    /\ UNCHANGED cerr
    /\ UNCHANGED <<mutex, number, cpc, attempts, pcur, ccur, log>>

\* pthread_mutexattr_init, setpshared, pthread_mutex_init.
ParentMutexInit ==
    /\ ppc = "p_mutex_init"
    /\ \/ ppc' = "p_init_number" /\ mutex' = 0 /\ perr' = perr
       \/ /\ ppc' = "p_failed" /\ mutex' = mutex
          /\ perr' = "Failed to initialize mutex"
    /\ UNCHANGED futexVars
    /\ UNCHANGED cerr
    /\ UNCHANGED <<number, shm, cpc, attempts, pcur, ccur, log>>

\* `*number_ptr = 100`, before the first lock.
ParentInitNumber ==
    /\ ppc = "p_init_number"
    /\ number' = InitialNumber
    /\ Logged("parent", "write", InitialNumber)
    /\ ppc' = "p_lock1"
    /\ UNCHANGED futexVars
    /\ UNCHANGED <<perr, cerr>>
    /\ UNCHANGED <<mutex, shm, cpc, attempts, pcur, ccur>>

ParentLock1 ==
    /\ ppc = "p_lock1"
    /\ \E o \in pthread_mutex_lock(mutex) :
          /\ mutex' = o[2]
          /\ IF o[1] = 0
                THEN /\ ppc' = "p_spawn" /\ perr' = perr
                     /\ Logged("parent", "acquire", number)
                ELSE /\ ppc' = "p_failed" /\ log' = log
                     /\ perr' = "Failed to lock mutex initially"
    /\ UNCHANGED futexVars
    /\ UNCHANGED cerr
    /\ UNCHANGED <<number, shm, cpc, attempts, pcur, ccur>>

\* Writing the embedded executable to a temp file and spawning it; every
\* step of it propagates its error with `?`.
ParentSpawn ==
    /\ ppc = "p_spawn"
    /\ \/ ppc' = "p_sleep" /\ cpc' = "c_open" /\ perr' = perr
       \/ ppc' = "p_failed" /\ cpc' = cpc /\ perr' = "io::Error"
    /\ UNCHANGED futexVars
    /\ UNCHANGED cerr
    /\ UNCHANGED <<mutex, number, shm, attempts, pcur, ccur, log>>

\* The 500 ms sleep, lock held.
ParentSleep ==
    /\ ppc = "p_sleep"
    /\ ppc' = "p_unlock1"
    /\ UNCHANGED futexVars
    /\ UNCHANGED <<perr, cerr>>
    /\ UNCHANGED <<mutex, number, shm, cpc, attempts, pcur, ccur, log>>

ParentUnlock1 ==
    /\ ppc = "p_unlock1"
    /\ \E o \in pthread_mutex_unlock(mutex) :
          /\ mutex' = o[2]
          /\ IF o[1] = 0
                THEN /\ ppc' = "p_wait" /\ perr' = perr
                     /\ Logged("parent", "release", number)
                ELSE /\ ppc' = "p_failed" /\ log' = log
                     /\ perr' = "Parent: Failed to unlock mutex"
    /\ UNCHANGED futexVars
    /\ UNCHANGED cerr
    /\ UNCHANGED <<number, shm, cpc, attempts, pcur, ccur>>

ChildExited == cpc \in {"c_done", "c_failed", "c_killed"}

\* Faulty variant: a parent that does not look at the child's exit status.
ChildSucceeded_Any == ChildExited

ChildSucceeded == cpc = "c_done"

\* Faulty variant: a parent that goes on without waiting for the child.
ParentWait_NoWait ==
    /\ ppc = "p_wait"
    /\ ppc' = "p_lock2"
    /\ UNCHANGED futexVars
    /\ UNCHANGED <<perr, cerr>>
    /\ UNCHANGED <<mutex, number, shm, cpc, attempts, pcur, ccur, log>>

\* child.wait() returns once the child has exited; a status other than
\* success returns Err("Child process failed").
ParentWait ==
    /\ ppc = "p_wait"
    /\ ChildExited
    /\ IF ChildSucceeded
          THEN ppc' = "p_lock2" /\ perr' = perr
          ELSE ppc' = "p_failed" /\ perr' = "Child process failed"
    /\ UNCHANGED futexVars
    /\ UNCHANGED cerr
    /\ UNCHANGED <<mutex, number, shm, cpc, attempts, pcur, ccur, log>>

ParentLock2 ==
    /\ ppc = "p_lock2"
    /\ \E o \in pthread_mutex_lock(mutex) :
          /\ mutex' = o[2]
          /\ IF o[1] = 0
                THEN /\ ppc' = "p_read" /\ perr' = perr
                     /\ Logged("parent", "acquire", number)
                ELSE /\ ppc' = "p_failed" /\ log' = log
                     /\ perr' = "Parent: Failed to acquire mutex"
    /\ UNCHANGED futexVars
    /\ UNCHANGED cerr
    /\ UNCHANGED <<number, shm, cpc, attempts, pcur, ccur>>

ParentRead ==
    /\ ppc = "p_read"
    /\ pcur' = number
    /\ Logged("parent", "read", number)
    /\ ppc' = "p_write"
    /\ UNCHANGED futexVars
    /\ UNCHANGED <<perr, cerr>>
    /\ UNCHANGED <<mutex, number, shm, cpc, attempts, ccur>>

ParentWrite ==
    /\ ppc = "p_write"
    /\ number' = ParentOp(pcur)
    /\ Logged("parent", "write", ParentOp(pcur))
    /\ ppc' = "p_unlock2"
    /\ UNCHANGED futexVars
    /\ UNCHANGED <<perr, cerr>>
    /\ UNCHANGED <<mutex, shm, cpc, attempts, pcur, ccur>>

\* The final unlock's return code is not looked at.
ParentUnlock2 ==
    /\ ppc = "p_unlock2"
    /\ \E o \in pthread_mutex_unlock(mutex) :
          /\ mutex' = o[2]
          /\ IF o[1] = 0
                THEN Logged("parent", "release", number)
                ELSE log' = log
    /\ ppc' = "p_cleanup"
    /\ UNCHANGED futexVars
    /\ UNCHANGED <<perr, cerr>>
    /\ UNCHANGED <<number, shm, cpc, attempts, pcur, ccur>>

\* pthread_mutex_destroy, munmap, close, shm_unlink, then Ok(()).
ParentCleanup ==
    /\ ppc = "p_cleanup"
    /\ shm' = "unlinked"
    /\ Logged("parent", "unlink", number)
    /\ ppc' = "p_done"
    /\ UNCHANGED futexVars
    /\ UNCHANGED <<perr, cerr>>
    /\ UNCHANGED <<mutex, number, cpc, attempts, pcur, ccur>>

(***************************************************************************)
(* The child, src/child_process/src/main.rs.                               *)
(***************************************************************************)
\* Argument check, shm_open of the existing name, mmap.
ChildOpen ==
    /\ cpc = "c_open"
    /\ \/ shm = "linked" /\ cpc' = "c_peek" /\ cerr' = cerr
       \/ /\ cpc' = "c_failed"
          /\ cerr' \in {"Child: Failed to open shared memory",
                        "Child: Failed to map shared memory"}
    /\ UNCHANGED futexVars
    /\ UNCHANGED perr
    /\ UNCHANGED <<mutex, number, shm, ppc, attempts, pcur, ccur, log>>

\* The diagnostic read of the payload before any acquire (a mismatch only
\* prints a warning), then `attempts = 0`.
ChildPeek ==
    /\ cpc = "c_peek"
    /\ attempts' = 0
    /\ cpc' = "c_try"
    /\ UNCHANGED futexVars
    /\ UNCHANGED <<perr, cerr>>
    /\ UNCHANGED <<mutex, number, shm, ppc, pcur, ccur, log>>

\* One iteration of the polling loop, up to the sleep.
ChildTrylock ==
    /\ cpc = "c_try"
    /\ \E o \in pthread_mutex_trylock(mutex) :
          /\ mutex' = o[2]
          /\ \/ /\ o[1] = 0
                /\ cpc' = "c_read"
                /\ attempts' = attempts
                /\ cerr' = cerr
                /\ Logged("child", "acquire", number)
             \/ /\ o[1] = EBUSY
                /\ attempts' = attempts + 1
                /\ IF attempts + 1 >= max_attempts
                      THEN /\ cpc' = "c_failed"
                           /\ cerr' = "Child: Timeout waiting for mutex"
                      ELSE cpc' = "c_sleep" /\ cerr' = cerr
                /\ log' = log
             \/ /\ o[1] \notin {0, EBUSY}
                /\ cpc' = "c_failed"
                /\ cerr' = "Child: Failed to acquire mutex"
                /\ attempts' = attempts
                /\ log' = log
    /\ UNCHANGED futexVars
    /\ UNCHANGED perr
    /\ UNCHANGED <<number, shm, ppc, pcur, ccur>>

\* The 100 ms sleep between two polls.
ChildSleep ==
    /\ cpc = "c_sleep"
    /\ cpc' = "c_try"
    /\ UNCHANGED futexVars
    /\ UNCHANGED <<perr, cerr>>
    /\ UNCHANGED <<mutex, number, shm, ppc, attempts, pcur, ccur, log>>

ChildRead ==
    /\ cpc = "c_read"
    /\ ccur' = number
    /\ Logged("child", "read", number)
    /\ cpc' = "c_write"
    /\ UNCHANGED futexVars
    /\ UNCHANGED <<perr, cerr>>
    /\ UNCHANGED <<mutex, number, shm, ppc, attempts, pcur>>

ChildWrite ==
    /\ cpc = "c_write"
    /\ number' = ChildOp(ccur)
    /\ Logged("child", "write", ChildOp(ccur))
    /\ cpc' = "c_work"
    /\ UNCHANGED futexVars
    /\ UNCHANGED <<perr, cerr>>
    /\ UNCHANGED <<mutex, shm, ppc, attempts, pcur, ccur>>

\* The 500 ms of simulated work, lock held.
ChildWork ==
    /\ cpc = "c_work"
    /\ cpc' = "c_unlock"
    /\ UNCHANGED futexVars
    /\ UNCHANGED <<perr, cerr>>
    /\ UNCHANGED <<mutex, number, shm, ppc, attempts, pcur, ccur, log>>

ChildUnlock ==
    /\ cpc = "c_unlock"
    /\ \E o \in pthread_mutex_unlock(mutex) :
          /\ mutex' = o[2]
          /\ IF o[1] = 0
                THEN /\ cpc' = "c_cleanup" /\ cerr' = cerr
                     /\ Logged("child", "release", number)
                ELSE /\ cpc' = "c_failed" /\ log' = log
                     /\ cerr' = "Child: Failed to unlock mutex"
    /\ UNCHANGED futexVars
    /\ UNCHANGED perr
    /\ UNCHANGED <<number, shm, ppc, attempts, pcur, ccur>>

\* munmap, close, then Ok(()).
ChildCleanup ==
    /\ cpc = "c_cleanup"
    /\ cpc' = "c_done"
    /\ UNCHANGED futexVars
    /\ UNCHANGED <<perr, cerr>>
    /\ UNCHANGED <<mutex, number, shm, ppc, attempts, pcur, ccur, log>>

ChildRunning ==
    cpc \in {"c_open", "c_peek", "c_try", "c_sleep", "c_read", "c_write",
             "c_work", "c_unlock", "c_cleanup"}

\* The child is killed (or crashes) where it stands: it exits with a status
\* that is not success, and the mutex word stays as it is.
ChildKilled ==
    /\ ChildRunning
    /\ cpc' = "c_killed"
    /\ UNCHANGED futexVars
    /\ UNCHANGED <<perr, cerr>>
    /\ UNCHANGED <<mutex, number, shm, ppc, attempts, pcur, ccur, log>>

(***************************************************************************)
(* The protocol's specification.                                           *)
(***************************************************************************)
Init == ProtoIdle /\ FutexIdle

Next ==
    \/ ParentCreate \/ ParentMutexInit \/ ParentInitNumber \/ ParentLock1
    \/ ParentSpawn \/ ParentSleep \/ ParentUnlock1 \/ ParentWait
    \/ ParentLock2 \/ ParentRead \/ ParentWrite \/ ParentUnlock2
    \/ ParentCleanup
    \/ ChildOpen \/ ChildPeek \/ ChildTrylock \/ ChildSleep \/ ChildRead
    \/ ChildWrite \/ ChildWork \/ ChildUnlock \/ ChildCleanup \/ ChildKilled

Spec == Init /\ [][Next]_vars

\* Scheduling: each process, while it has a statement to execute, eventually
\* executes it (its sleeps end, its calls return). Nothing is assumed of a
\* kill of the child.
ParentStep ==
    \/ ParentCreate \/ ParentMutexInit \/ ParentInitNumber \/ ParentLock1
    \/ ParentSpawn \/ ParentSleep \/ ParentUnlock1 \/ ParentWait
    \/ ParentLock2 \/ ParentRead \/ ParentWrite \/ ParentUnlock2
    \/ ParentCleanup

ChildStep ==
    \/ ChildOpen \/ ChildPeek \/ ChildTrylock \/ ChildSleep \/ ChildRead
    \/ ChildWrite \/ ChildWork \/ ChildUnlock \/ ChildCleanup

SpecFair == Spec /\ WF_vars(ParentStep) /\ WF_vars(ChildStep)

(***************************************************************************)
(* Properties of the parent/child protocol (specification Spec).           *)
(***************************************************************************)
\* The parent's lock..unlock sections: the initial hold (lock at line 103 to
\* unlock at line 143) and the final read-modify-write (165 to 187).
ParentInCS ==
    ppc \in {"p_spawn", "p_sleep", "p_unlock1", "p_read", "p_write",
             "p_unlock2"}
\* The child's section: trylock success (line 88) to unlock (line 128).
ChildInCS == cpc \in {"c_read", "c_write", "c_work", "c_unlock"}

Events(who, what) ==
    {i \in DOMAIN log : log[i][1] = who /\ log[i][2] = what}
Happened(who, what) == Events(who, what) # {}

\* C2: the parent and the child are never both inside their lock..unlock
\* sections of the shared mutex.
C2_MutualExclusion == ~(ParentInCS /\ ChildInCS)

\* The child is inside its section, having found the mutex busy before.
C2_Witness == ChildInCS /\ attempts > 0 /\ mutex = 1 /\ ppc = "p_wait"

\* C3: whenever the parent has exited successfully, the child read 100 right
\* after acquiring and wrote (100+25)*2 = 250, the parent read 250 after
\* re-acquiring and wrote 250*3+50 = 800, and the payload is 800.
C3_EndToEnd ==
    ppc = "p_done" =>
        /\ ccur = 100
        /\ \E i \in Events("child", "write") : log[i][3] = 250
        /\ pcur = 250
        /\ \E i \in Events("parent", "write") : log[i][3] = 800
        /\ number = 800

C3_Witness == ppc = "p_done" /\ cpc = "c_done" /\ number = 800

\* The child took the mutex and was killed before releasing it.
ChildDiedHolding ==
    /\ cpc = "c_killed"
    /\ Happened("child", "acquire")
    /\ ~Happened("child", "release")

ParentExited == ppc \in {"p_done", "p_failed"}

\* C4: if the child acquires the lock and is killed while holding it, the
\* parent's run ends with a TimedOut outcome of its next acquire (and does
\* not block forever).
C4_CrashedHolderTimesOut ==
    (ChildDiedHolding /\ ParentExited) => perr = "TimedOut"

\* The value the latest release before log position i left in the payload
\* (the creator's initial value when nothing was released before).
ReleasedBefore(i) ==
    LET rels == {j \in 1 .. i - 1 : log[j][2] = "release"} IN
    IF rels = {} THEN InitialNumber
    ELSE log[CHOOSE j \in rels : \A k \in rels : k <= j][3]

\* C7: the payload a process reads right after a successful acquire is the
\* value the previous holder left at its release (the initial value if
\* none), and between an acquire and the acquirer's own release no other
\* process writes the payload.
C7_ReadAfterAcquire ==
    /\ \A i \in DOMAIN log :
          log[i][2] = "read" => log[i][3] = ReleasedBefore(i)
    /\ \A i \in DOMAIN log : \A k \in DOMAIN log :
          (/\ log[i][2] = "acquire"
           /\ log[k][2] = "write"
           /\ i < k
           /\ log[k][1] # log[i][1])
          => \E j \in i + 1 .. k - 1 :
                log[j][2] = "release" /\ log[j][1] = log[i][1]

\* Both reads have happened, each after the other process's write.
C7_Witness ==
    /\ \E i \in Events("child", "read") : log[i][3] = InitialNumber
    /\ \E i \in Events("parent", "read") : log[i][3] = ChildOp(InitialNumber)

\* The full protocol: the child acquired, wrote, released and exited with
\* success; the parent then re-acquired, wrote the final payload, released.
FullProtocol ==
    /\ cpc = "c_done"
    /\ \E a \in Events("child", "acquire") :
       \E w \in Events("child", "write") :
       \E r \in Events("child", "release") :
       \E pa \in Events("parent", "acquire") :
       \E pw \in Events("parent", "write") :
       \E pr \in Events("parent", "release") :
          a < w /\ w < r /\ r < pa /\ pa < pw /\ pw < pr

\* C10: the parent exits with success only if the full protocol completed;
\* a child that timed out, hit a lock error or exited non-zero makes the
\* parent exit non-zero.
C10_ExitStatus ==
    /\ ppc = "p_done" => FullProtocol
    /\ (ParentExited /\ cpc \in {"c_failed", "c_killed"}) => ppc = "p_failed"

\* The processes that hold the lock just before log position k: those with
\* an acquire before k and no release of their own between it and k.
HoldersBefore(k) ==
    {w \in {"parent", "child"} :
        \E i \in 1 .. k - 1 :
            /\ log[i][1] = w /\ log[i][2] = "acquire"
            /\ \A j \in i + 1 .. k - 1 :
                  ~(log[j][1] = w /\ log[j][2] = "release")}

Writes == {k \in DOMAIN log : log[k][2] = "write"}

\* C11: every write to the payload slot (the parent's initial write of 100,
\* the child's write, the parent's final write) occurs while the writing
\* process holds the lock.
C11_WriteDiscipline ==
    \A k \in Writes : HoldersBefore(k) = {log[k][1]}

\* The parent's write of the initial value, the first event of a run.
InitialWrite(k) == k = 1 /\ log[k] = <<"parent", "write", InitialNumber>>

\* C11, amended: the child's write and the parent's final write occur while
\* the writer, and nobody else, holds the lock; the parent's initial write
\* of 100 occurs before its first acquire, with nobody holding the lock, and
\* the child is spawned only after that write and that acquire.
C11_WritesUnderLockAfterInit ==
    /\ \A k \in Writes :
          IF InitialWrite(k) THEN HoldersBefore(k) = {}
          ELSE HoldersBefore(k) = {log[k][1]}
    /\ cpc # "c_none" =>
          /\ Len(log) >= 2
          /\ InitialWrite(1)
          /\ log[2] = <<"parent", "acquire", InitialNumber>>

\* All three writes have happened.
C11_Witness ==
    /\ Cardinality(Writes) = 3
    /\ Happened("child", "write")
    /\ number = ParentOp(ChildOp(InitialNumber))

\* C12: once the region exists it is unlinked only by the parent, in its
\* cleanup, and only after the child has exited; it is unlinked at most once
\* (an unlinked region stays unlinked); and no step of the child, its
\* munmap and close included, changes the region's name.
C12_RegionLifecycle ==
    [][/\ (shm = "linked" /\ shm' # shm) =>
              /\ shm' = "unlinked"
              /\ ppc = "p_cleanup" /\ ppc' = "p_done"
              /\ ChildExited
              /\ cpc' = cpc
       /\ shm = "unlinked" => shm' = "unlinked"
       /\ cpc' # cpc => shm' = shm]_vars

\* The region is gone, the child having unmapped, closed and exited before.
C12_Witness ==
    /\ shm = "unlinked"
    /\ cpc = "c_done"
    /\ Cardinality(Events("parent", "unlink")) = 1

\* The child's pthread_mutex_trylock returns in this step.
TrylockStep == cpc = "c_try" /\ cpc' \notin {"c_try", "c_killed"}

TimeoutError == "Child: Timeout waiting for mutex"

\* C16: a busy trylock is followed by the 100 ms sleep and a retry; the
\* child gives up with the timeout error exactly on the busy result that
\* brings the count to timeout_seconds * 10 = 100, never earlier, when
\* attempts x 100 ms >= the 10 s timeout; a trylock that does not succeed
\* leaves the mutex as it was; a result other than 0 or EBUSY ends the
\* child at once with an error.
C16_BoundedPolling ==
    [][/\ TrylockStep =>
             \/ /\ cpc' = "c_read"
                /\ mutex = 0 /\ mutex' = 1
                /\ attempts' = attempts
             \/ /\ cpc' = "c_sleep"
                /\ mutex = 1 /\ mutex' = mutex
                /\ attempts' = attempts + 1
                /\ attempts' < timeout_seconds * 10
                /\ cerr' = ""
             \/ /\ cpc' = "c_failed" /\ cerr' = TimeoutError
                /\ mutex = 1 /\ mutex' = mutex
                /\ attempts' = attempts + 1
                /\ attempts' = timeout_seconds * 10
                /\ attempts' = 100
                /\ attempts' * sleep_millis >= timeout_seconds * 1000
             \/ /\ cpc' = "c_failed" /\ cerr' = "Child: Failed to acquire mutex"
                /\ mutex' = mutex
                /\ attempts' = attempts
       /\ (cpc = "c_sleep" /\ cpc' \notin {"c_sleep", "c_killed"}) =>
             cpc' = "c_try" /\ mutex' = mutex /\ attempts' = attempts
       /\ (cerr # TimeoutError /\ cerr' = TimeoutError) => TrylockStep]_vars

\* The child has given up on its hundredth busy result, the parent still
\* holding the mutex.
C16_Witness ==
    /\ cpc = "c_failed"
    /\ cerr = TimeoutError
    /\ attempts = 100
    /\ mutex = 1
    /\ ppc \in {"p_sleep", "p_unlock1"}

IsWrite(e) == e[2] = "write"

\* Who wrote the payload, in the order of the writes.
Writers ==
    LET w == SelectSeq(log, IsWrite) IN [i \in DOMAIN w |-> w[i][1]]

PhaseOrder == <<"parent", "child", "parent">>

\* The parent is at or past its second acquire.
ParentFinalPhase ==
    ppc \in {"p_lock2", "p_read", "p_write", "p_unlock2", "p_cleanup",
             "p_done"}

\* C17: the parent holds the lock from before the child is spawned until its
\* first unlock, so every acquire of the child follows the parent's first
\* release; the parent's final read-modify-write begins only after the child
\* has released the lock and exited; the payload writes occur in the order
\* parent-initial, child, parent-final.
C17_PhaseOrdering ==
    /\ (cpc # "c_none" /\ ~Happened("parent", "release")) =>
            /\ mutex = 1
            /\ HoldersBefore(Len(log) + 1) = {"parent"}
    /\ \A i \in Events("child", "acquire") :
            \E j \in Events("parent", "release") : j < i
    /\ ParentFinalPhase => cpc = "c_done" /\ Happened("child", "release")
    /\ \A i \in Events("parent", "read") :
            \E j \in Events("child", "release") : j < i
    /\ Len(Writers) <= 3
    /\ \A i \in DOMAIN Writers : Writers[i] = PhaseOrder[i]

\* The three phases have run: the child found the mutex busy, acquired it
\* after the parent's first unlock, and the parent wrote last.
C17_Witness ==
    /\ Writers = PhaseOrder
    /\ attempts > 0
    /\ Cardinality(Events("parent", "release")) = 2
    /\ cpc = "c_done"

\* C18: whenever the parent and the child have both terminated, the mutex
\* is unlocked and the region has been unlinked by the parent.
C18_TerminalState ==
    (ParentExited /\ ChildExited) =>
        /\ mutex = 0
        /\ shm = "unlinked"
        /\ Happened("parent", "unlink")

\* No process has crashed or returned an error: the child was not killed,
\* every call succeeded, and the child did not run out of its polling budget.
NoFault == cpc # "c_killed" /\ perr = "" /\ cerr = ""

BothDone == ppc = "p_done" /\ cpc = "c_done"

\* C19: whenever the parent is at its second, blocking acquire (after a
\* successful exit of the child) the mutex is unlocked, so the acquire does
\* not block; and in a run where no process crashes or fails and the parent
\* releases within the child's polling budget, the child eventually acquires
\* the lock and both processes terminate.
C19_DeadlockFreedom ==
    /\ [](ppc = "p_lock2" => mutex = 0 /\ cpc = "c_done")
    /\ []NoFault => <>Happened("child", "acquire")
    /\ []NoFault => <>BothDone

\* The parent is at its second acquire with the mutex free, the child having
\* polled, acquired, released and exited.
C19_Witness ==
    /\ ppc = "p_lock2"
    /\ mutex = 0
    /\ cpc = "c_done"
    /\ attempts > 0
    /\ Happened("child", "release")

(***************************************************************************)
(* Properties of the futex lock (specification SpecFutex).                 *)
(***************************************************************************)
Holders == {p \in Procs : holds[p]}

\* C1: at most one process is between a successful acquire (lock or
\* lock_timeout returned Ok, try_lock returned true) and its unlock.
C1_FutexMutualExclusion == Cardinality(Holders) <= 1

\* One process holds the lock while another sleeps in the kernel wait.
C1_Witness ==
    \E p \in Procs : \E q \in Procs \ {p} :
        holds[p] /\ pc[q] = "sleeping" /\ futex = 1

InLockTimeout(p) == op[p] = "lock_timeout" /\ pc[p] \notin {"idle", "ret"}
LockTimeoutReturned(p) == op[p] = "lock_timeout" /\ pc[p] = "ret"

\* C5: if the holder unlocks while another participant is inside
\* lock_timeout after its failed compare-exchange (before or in the kernel
\* wait) with time left, and nobody else takes the lock, that call of
\* lock_timeout returns Ok.
C5_ReleaseLetsWaiterIn ==
    \A p \in Procs :
        (LockTimeoutReturned(p) /\ hist[p].rel) => res[p] = "Ok"

\* lock_timeout(timeout) returns in this step, at least `timeout` after it
\* started, the word having been 1 ever since it started.
ReturnsAfterHeldFor(p) ==
    /\ InLockTimeout(p)
    /\ pc'[p] = "ret"
    /\ elapsed[p] >= tmo[p]
    /\ ~hist[p].zero
    /\ futex = 1

\* C6: if the word is 1 continuously for at least `timeout` from the start
\* of lock_timeout(timeout), the call returns Err(TimedOut), the caller does
\* not become the holder and the word is left 1 with its holder.
C6_TimeoutCorrectness ==
    [][\A p \in Procs :
          ReturnsAfterHeldFor(p) =>
              res'[p] = "TimedOut" /\ futex' = 1 /\ holds' = holds]_vars

\* lock_timeout returns in this step, the word having been 1 from the start
\* of the call until now.
ReturnsWhileHeld(p) ==
    /\ InLockTimeout(p)
    /\ pc'[p] = "ret"
    /\ ~hist[p].zero
    /\ futex = 1

\* C6, amended: if the word is 1 continuously from the start of a call of
\* lock_timeout until the call returns, the call returns Err(TimedOut), or
\* Err(Interrupted) when a signal ends its kernel wait; the caller does not
\* become the holder and the word is left 1 with its holder.
C6_TimedOutOrInterrupted ==
    [][\A p \in Procs :
          ReturnsWhileHeld(p) =>
              /\ res'[p] \in {"TimedOut", "Interrupted"}
              /\ futex' = 1
              /\ holds' = holds]_vars

\* A call of lock_timeout slept in the kernel and timed out while another
\* process held the lock all along.
C6_Witness ==
    \E p \in Procs : \E q \in Procs \ {p} :
        /\ LockTimeoutReturned(p)
        /\ res[p] = "TimedOut"
        /\ hist[p].waited
        /\ ~hist[p].zero
        /\ holds[q]
        /\ futex = 1

\* C8: lock() or lock_timeout(timeout), for every timeout, called with the
\* word 0 and no other process acting, returns Ok with the word 1 and
\* without invoking the kernel wait.
C8_UncontendedFastPath ==
    \A p \in Procs :
        (pc[p] = "ret" /\ op[p] \in {"lock", "lock_timeout"} /\ hist[p].quiet)
            => res[p] = "Ok" /\ futex = 1 /\ holds[p] /\ ~hist[p].waited

\* Process p calls try_lock in this step.
TryLockStep(p) == pc[p] = "idle" /\ op'[p] = "try_lock"

\* C9: try_lock returns within its one step; it returns true exactly when
\* the word was 0, leaving the word 1 and the caller the holder; with the
\* word 1 it returns false, never sleeps, and leaves the word, the holder
\* and the payload as they were.
C9_TryLock ==
    [][\A p \in Procs :
          TryLockStep(p) =>
              /\ pc'[p] = "ret"
              /\ p \notin Sleepers'
              /\ ~hist'[p].waited
              /\ IF futex = 0
                    THEN res'[p] = "true" /\ futex' = 1 /\ holds'[p]
                    ELSE /\ res'[p] = "false"
                         /\ futex' = futex
                         /\ holds' = holds
                         /\ sdnum' = sdnum]_vars

\* One try_lock has returned true and a later one, by another process, false.
C9_Witness ==
    \E p \in Procs : \E q \in Procs \ {p} :
        /\ pc[p] = "ret" /\ op[p] = "try_lock" /\ res[p] = "true" /\ holds[p]
        /\ pc[q] = "ret" /\ op[q] = "try_lock" /\ res[q] = "false"
        /\ futex = 1

\* Process p's kernel wait (entered or about to be entered after a failed
\* compare-exchange) ends in this step for a reason other than the timeout
\* running out or a signal.
WaitEndsOtherwise(p) ==
    /\ op[p] \in {"lock", "lock_timeout"}
    /\ pc[p] \in {"wait", "sleeping"}
    /\ pc'[p] \notin {"wait", "sleeping"}
    /\ res'[p] \notin {"TimedOut", "Interrupted"}

\* C13: in lock and lock_timeout, whenever the kernel wait after a failed
\* compare-exchange returns for a reason other than timeout or interruption
\* (a wake from unlock, a spurious wake, the word no longer 1 when the wait
\* is entered), the caller goes back to the top of its loop; it does not
\* return an error because the lock was released before its wait.
C13_RetryAfterWait ==
    [][\A p \in Procs :
          WaitEndsOtherwise(p) => pc'[p] = LoopTop(p) /\ res'[p] = "none"]_vars

StoreStep(p) == pc[p] = "idle" /\ op'[p] = "unlock"
WakeStep(p) == pc[p] = "wake" /\ pc'[p] # "wake"

\* The processes a step takes out of the kernel wait.
Woken == Sleepers \ Sleepers'

\* Everything but the caller's own position and result is as it was.
OthersUntouched(p) ==
    /\ \A q \in Procs \ {p} : pc'[q] = pc[q] /\ res'[q] = res[q]
    /\ op' = op /\ holds' = holds /\ sdnum' = sdnum
    /\ tmo' = tmo /\ elapsed' = elapsed /\ rem' = rem

====
